---- MODULE Spec2Model ----
(***************************************************************************)
(* A model of the file_set crate: the insertion-ordered, duplicate-free    *)
(* OrderedSet<T> (src/src/ordered_set.rs, and its twin OrderableSet<T> in  *)
(* src/src/orderable_set.rs, which has the same code under another name),  *)
(* and FileSet (src/src/lib.rs), the directory-entry pipeline built on an  *)
(* insertion-ordered set of paths.                                         *)
(***************************************************************************)
EXTENDS Integers, Sequences, FiniteSets, TLC

VARIABLES
    items,      \* OrderedSet: slot -> the items of the OrderedSet value it holds
    call,       \* OrderedSet: the last call made and what it returned
    vec,        \* try_from: the input vector
    built,      \* try_from: the Result of the conversion, once made
    dir,        \* FileSet: what read_dir yields for the directory
    fs,         \* FileSet: path -> the kind link-aware metadata reports now
    changes,    \* FileSet: how often the filesystem changed under the sets
    orig,       \* FileSet: the index_set FileSet::new returned
    sets,       \* FileSet: slot -> Option(index_set) of the FileSet it holds
    fcall       \* FileSet: the last call made and how it ended

osvars == <<items, call>>
tfvars == <<vec, built>>
fsvars == <<dir, fs, changes, orig, sets, fcall>>

vars == <<items, call, vec, built, dir, fs, changes, orig, sets, fcall>>

(***************************************************************************)
(* Bounds of the model.                                                    *)
(***************************************************************************)
MaxVal == 3         \* OrderedSet elements are 1..MaxVal
MaxLen == 3         \* longest item sequence / input vector

Vals == 1..MaxVal

(***************************************************************************)
(* Option<T> as a sequence of at most one element.                         *)
(***************************************************************************)
None == <<>>
Some(x) == <<x>>
IsSome(o) == Len(o) = 1
Unwrap(o) == o[1]

(***************************************************************************)
(* Vec<T> helpers.                                                         *)
(***************************************************************************)
\* slice::contains
Contains(seq, x) == \E i \in 1..Len(seq) : seq[i] = x

\* iter().filter(|n| n == item).count()
Count(seq, x) == Cardinality({i \in 1..Len(seq) : seq[i] = x})

\* slice::reverse
Rev(seq) == [i \in 1..Len(seq) |-> seq[Len(seq) + 1 - i]]

SeqsUpTo(S, n) == UNION {[1..k -> S] : k \in 0..n}

(***************************************************************************)
(* OrderedSet<T>: the methods, as functions of the receiver's items.       *)
(***************************************************************************)
\* OrderedSet::new
OrderedSet_new == <<>>

\* A push that forgets the containment test.
OrderedSet_push_unchecked(self, item) ==
    [ok |-> TRUE, items |-> Append(self, item)]

\* A push that silently deduplicates: a repeated item is reported as Ok.
OrderedSet_push_dedup(self, item) ==
    IF Contains(self, item)
    THEN [ok |-> TRUE, items |-> self]
    ELSE [ok |-> TRUE, items |-> Append(self, item)]

\* OrderedSet::push: the result and the receiver's items afterwards
OrderedSet_push(self, item) ==
    IF Contains(self, item)
    THEN [ok |-> FALSE, items |-> self]
    ELSE [ok |-> TRUE, items |-> Append(self, item)]

\* A base that tests membership in the receiver instead of in other.
OrderedSet_base_wrong_set(self, other, should_compute_intersection) ==
    SelectSeq(self, LAMBDA x : Contains(self, x) = should_compute_intersection)

\* OrderedSet::intersection_difference_base
OrderedSet_intersection_difference_base(self, other, should_compute_intersection) ==
    SelectSeq(self, LAMBDA x : Contains(other, x) = should_compute_intersection)

\* OrderedSet::intersection
OrderedSet_intersection(self, other) ==
    OrderedSet_intersection_difference_base(self, other, TRUE)

\* OrderedSet::difference
OrderedSet_difference(self, other) ==
    OrderedSet_intersection_difference_base(self, other, FALSE)

\* A reverse that returns the reversed copy and leaves the receiver alone.
OrderedSet_reverse_copy_only(self) ==
    [self |-> self, ret |-> Rev(self)]

\* OrderedSet::reverse: the receiver's items afterwards and the returned set
OrderedSet_reverse(self) ==
    LET reversed == Rev(self)
    IN  [self |-> reversed, ret |-> reversed]

\* OrderedSet::to_vec
OrderedSet_to_vec(self) == self

\* A try_from that compares neighbours only.
OrderedSet_try_from_adjacent(v) ==
    IF \E i \in 1..(Len(v) - 1) : v[i] = v[i + 1]
    THEN [ok |-> FALSE, items |-> <<>>]
    ELSE [ok |-> TRUE, items |-> v]

\* TryFrom<Vec<T>> for OrderedSet<T>
OrderedSet_try_from(v) ==
    IF \E i \in 1..Len(v) : Count(v, v[i]) > 1
    THEN [ok |-> FALSE, items |-> <<>>]
    ELSE [ok |-> TRUE, items |-> v]

\* TryFrom<Vec<T>> for OrderableSet<T>
OrderableSet_try_from(v) ==
    IF \E i \in 1..Len(v) : Count(v, v[i]) > 1
    THEN [ok |-> FALSE, items |-> <<>>]
    ELSE [ok |-> TRUE, items |-> v]

(***************************************************************************)
(* Paths.  Every path of a FileSet is directory.join(name) for one and the *)
(* same directory, so a path is modelled by the bytes of its last          *)
(* component.                                                              *)
(***************************************************************************)
DOT == 46

Paths == { <<46, 104>>,         \* ".h"
           <<97, 46, 116>>,     \* "a.t"
           <<116>> }            \* "t"

\* Path::file_name: None when the path ends in ".."
file_name(p) == IF p = <<DOT, DOT>> THEN None ELSE Some(p)

\* Path::extension: the part of the file name after its last dot, None when
\* there is no file name, no dot, or no dot but the leading one
extension(p) ==
    IF file_name(p) = None THEN None
    ELSE LET name == Unwrap(file_name(p))
             dots == {i \in 1..Len(name) : name[i] = DOT}
         IN  IF dots = {} THEN None
             ELSE LET last == CHOOSE i \in dots : \A j \in dots : j <= i
                  IN  IF last = 1 THEN None
                      ELSE Some(SubSeq(name, last + 1, Len(name)))

\* str::starts_with
starts_with(s, prefix) ==
    /\ Len(prefix) <= Len(s)
    /\ SubSeq(s, 1, Len(prefix)) = prefix

\* Ord for byte strings: lexicographic
LexLess(a, b) ==
    \E k \in 0..Len(a) :
        /\ k <= Len(b)
        /\ \A i \in 1..k : a[i] = b[i]
        /\ \/ k = Len(a) /\ k < Len(b)
           \/ k < Len(a) /\ k < Len(b) /\ a[k + 1] < b[k + 1]

\* Ord for Option<&OsStr>: None before every Some
OptionLess(x, y) ==
    \/ x = None /\ y # None
    \/ x # None /\ y # None /\ LexLess(Unwrap(x), Unwrap(y))

(***************************************************************************)
(* The filesystem: what symlink_metadata reports for a path at the moment  *)
(* it is asked.  "gone" is a path whose metadata cannot be read.           *)
(***************************************************************************)
Kinds == {"dir", "file", "symlink", "other", "gone"}

\* Metadata::len of each path: ".h" and "t" hold one byte, "a.t" is empty
FileLen(p) == IF p = <<97, 46, 116>> THEN 0 ELSE 1

\* Path::metadata, which follows a link (here to a regular file).
metadata_following(p, f) ==
    IF f[p] = "gone" THEN None
    ELSE Some([file_type |-> IF f[p] = "symlink" THEN "file" ELSE f[p],
               len |-> FileLen(p)])

\* Path::symlink_metadata: Err (None) or the metadata
symlink_metadata(p, f) ==
    IF f[p] = "gone" THEN None ELSE Some([file_type |-> f[p], len |-> FileLen(p)])

\* FileType::is_dir / is_file / is_symlink, picked by the ItemFilter
is_file_type_function(item_filter, file_type) ==
    CASE item_filter = "Directory" -> file_type = "dir"
      [] item_filter = "File" -> file_type = "file"
      [] item_filter = "Symlink" -> file_type = "symlink"

(***************************************************************************)
(* IndexSet<PathBuf>: an insertion-ordered set, held as its sequence.      *)
(***************************************************************************)
\* collect::<IndexSet<_>>(): insert in order, a repeated value is ignored
RECURSIVE IndexSet_collect(_)
IndexSet_collect(seq) ==
    IF seq = <<>> THEN <<>>
    ELSE LET front == IndexSet_collect(SubSeq(seq, 1, Len(seq) - 1))
             x == seq[Len(seq)]
         IN  IF Contains(front, x) THEN front ELSE Append(front, x)

\* IndexSet::difference
IndexSet_difference(a, b) == SelectSeq(a, LAMBDA x : ~Contains(b, x))

\* A union that puts the paths of b in front.
IndexSet_union_swapped(a, b) == b \o SelectSeq(a, LAMBDA x : ~Contains(b, x))

\* IndexSet::union
IndexSet_union(a, b) == a \o SelectSeq(b, LAMBDA x : ~Contains(a, x))

(***************************************************************************)
(* enums.rs                                                                *)
(***************************************************************************)
ItemFilter == {"Directory", "File", "Symlink"}
TextFilterBy == {"Extension", "Name"}
VisibilityFilter == {"Hidden", "Visible"}
OrderBy == {"Extension", "Item", "Name", "Size"}

\* the &'static str prefixes tried: "" and "t"
Texts == {<<>>, <<116>>}

Arg(tag, sub, text) == [tag |-> tag, sub |-> sub, text |-> text]
NoArg == Arg("none", "none", <<>>)

Filter ==
    {Arg("Item", k, <<>>) : k \in ItemFilter}
    \cup {Arg("Text", b, x) : b \in TextFilterBy, x \in Texts}
    \cup {Arg("Visibility", v, <<>>) : v \in VisibilityFilter}

(***************************************************************************)
(* FileSet: the methods, as functions of the receiver's index_set and of   *)
(* the filesystem they read.                                               *)
(***************************************************************************)
\* FileSet::filter_by_item
FileSet_filter_by_item(self, item_filter, f) ==
    IndexSet_collect(SelectSeq(self, LAMBDA path_buf :
        IF symlink_metadata(path_buf, f) = None THEN FALSE
        ELSE is_file_type_function(item_filter,
                                   Unwrap(symlink_metadata(path_buf, f)).file_type)))

\* Path::extension / Path::file_name, picked by the TextFilterBy
get_name_or_extension_function(text_filter_by, p) ==
    IF text_filter_by = "Extension" THEN extension(p) ELSE file_name(p)

\* FileSet::filter_by_text
FileSet_filter_by_text(self, text_filter_by, text) ==
    IndexSet_collect(SelectSeq(self, LAMBDA path_buf :
        LET name_or_extension == get_name_or_extension_function(text_filter_by, path_buf)
        IN  IF name_or_extension = None THEN FALSE
            ELSE starts_with(Unwrap(name_or_extension), text)))

\* A visibility filter that takes a path without a file name for a hidden one.
FileSet_filter_by_visibility_nameless(self, visibility_filter) ==
    LET should_find_visible_files == (visibility_filter = "Visible")
    IN  IndexSet_collect(SelectSeq(self, LAMBDA x :
            IF file_name(x) # None
            THEN should_find_visible_files # starts_with(Unwrap(file_name(x)), <<DOT>>)
            ELSE ~should_find_visible_files))

\* FileSet::filter_by_visibility
FileSet_filter_by_visibility(self, visibility_filter) ==
    LET should_find_visible_files == (visibility_filter = "Visible")
    IN  IndexSet_collect(SelectSeq(self, LAMBDA x :
            IF file_name(x) # None
            THEN should_find_visible_files # starts_with(Unwrap(file_name(x)), <<DOT>>)
            ELSE FALSE))

\* A filter that loses the first path it matches.
FileSet_filter_skip_first(self, filter, f) ==
    LET kept == CASE filter.tag = "Item" -> FileSet_filter_by_item(self, filter.sub, f)
                  [] filter.tag = "Text" -> FileSet_filter_by_text(self, filter.sub, filter.text)
                  [] filter.tag = "Visibility" -> FileSet_filter_by_visibility(self, filter.sub)
    IN  IF kept = <<>> THEN kept ELSE Tail(kept)

\* FileSet::filter
FileSet_filter(self, filter, f) ==
    CASE filter.tag = "Item" -> FileSet_filter_by_item(self, filter.sub, f)
      [] filter.tag = "Text" -> FileSet_filter_by_text(self, filter.sub, filter.text)
      [] filter.tag = "Visibility" -> FileSet_filter_by_visibility(self, filter.sub)

\* An exclude that takes the difference the wrong way round.
FileSet_exclude_swapped(self, filter, f) ==
    LET items_to_exclude == FileSet_filter(self, filter, f)
    IN  IndexSet_collect(IndexSet_difference(items_to_exclude, self))

\* FileSet::exclude
FileSet_exclude(self, filter, f) ==
    LET items_to_exclude == FileSet_filter(self, filter, f)
    IN  IndexSet_collect(IndexSet_difference(self, items_to_exclude))

\* A reverse that returns the paths in the receiver's order.
FileSet_reverse_kept(self) == IndexSet_collect(self)

\* FileSet::reverse
FileSet_reverse(self) == IndexSet_collect(Rev(self))

\* FileSet::to_vec
FileSet_to_vec(self) == self

\* FileSet::len
FileSet_len(self) == Len(self)

\* FileSet::is_empty
FileSet_is_empty(self) == Len(self) = 0

\* a.symlink_metadata().unwrap().len()
get_file_size(a, f) == Unwrap(symlink_metadata(a, f)).len

\* The comparison closure of order_by_extension_name_size, as "a sorts before b"
cmp_less(order_by, a, b, f) ==
    CASE order_by = "Extension" -> OptionLess(extension(a), extension(b))
      [] order_by = "Name" -> OptionLess(file_name(a), file_name(b))
      [] OTHER -> get_file_size(a, f) < get_file_size(b, f)

\* A sort that puts each element in front of the elements it ties with.
RECURSIVE IndexSet_sort_by_unstable(_, _, _)
IndexSet_sort_by_unstable(seq, order_by, f) ==
    IF seq = <<>> THEN <<>>
    ELSE LET sorted == IndexSet_sort_by_unstable(SubSeq(seq, 1, Len(seq) - 1), order_by, f)
             x == seq[Len(seq)]
             k == Cardinality({i \in 1..Len(sorted) : cmp_less(order_by, sorted[i], x, f)})
         IN  SubSeq(sorted, 1, k) \o <<x>> \o SubSeq(sorted, k + 1, Len(sorted))

\* IndexSet::sort_by, a stable sort: each element in turn goes behind every
\* element that does not sort after it
RECURSIVE IndexSet_sort_by(_, _, _)
IndexSet_sort_by(seq, order_by, f) ==
    IF seq = <<>> THEN <<>>
    ELSE LET sorted == IndexSet_sort_by(SubSeq(seq, 1, Len(seq) - 1), order_by, f)
             x == seq[Len(seq)]
             k == Cardinality({i \in 1..Len(sorted) : ~cmp_less(order_by, x, sorted[i], f)})
         IN  SubSeq(sorted, 1, k) \o <<x>> \o SubSeq(sorted, k + 1, Len(sorted))

\* A combination that chains the three groups instead of uniting them.
FileSet_order_by_item_chained(self, f1, f2, f3) ==
    FileSet_filter(self, Arg("Item", "Directory", <<>>), f1)
    \o FileSet_filter(self, Arg("Item", "File", <<>>), f2)
    \o FileSet_filter(self, Arg("Item", "Symlink", <<>>), f3)

\* FileSet::order_by_item.  Each of the three filter calls reads the metadata
\* afresh: f1, f2 and f3 are the filesystem as each of them finds it.
FileSet_order_by_item(self, f1, f2, f3) ==
    LET directories == FileSet_filter(self, Arg("Item", "Directory", <<>>), f1)
        files == FileSet_filter(self, Arg("Item", "File", <<>>), f2)
        symlinks == FileSet_filter(self, Arg("Item", "Symlink", <<>>), f3)
        get_index_set_union(a, b) == IndexSet_collect(IndexSet_union(a, b))
    IN  get_index_set_union(get_index_set_union(directories, files), symlinks)

\* FileSet::order_by_extension_name_size.  The Size closure unwraps the
\* metadata of both paths it is given, and a sort of two or more elements
\* hands every element to the closure: it panics when a path is unreadable.
FileSet_order_by_extension_name_size(self, order_by, f) ==
    IF /\ order_by \notin {"Extension", "Name"}
       /\ Len(self) >= 2
       /\ \E i \in 1..Len(self) : symlink_metadata(self[i], f) = None
    THEN [panicked |-> TRUE, index_set |-> <<>>]
    ELSE [panicked |-> FALSE, index_set |-> IndexSet_sort_by(self, order_by, f)]

\* FileSet::order_by
FileSet_order_by(self, order_by, f1, f2, f3) ==
    IF order_by = "Item"
    THEN [panicked |-> FALSE, index_set |-> FileSet_order_by_item(self, f1, f2, f3)]
    ELSE FileSet_order_by_extension_name_size(self, order_by, f1)

\* FileSet::new: read_dir(..).unwrap() and x.unwrap() on every entry
FileSet_new(directory) ==
    IF ~directory.open
    THEN [panicked |-> TRUE, index_set |-> <<>>]
    ELSE IF \E i \in 1..Len(directory.entries) : directory.entries[i] = None
    THEN [panicked |-> TRUE, index_set |-> <<>>]
    ELSE [panicked |-> FALSE,
          index_set |-> IndexSet_collect([i \in 1..Len(directory.entries) |->
                                            Unwrap(directory.entries[i])])]

(***************************************************************************)
(* FileSet: the calls a client makes.  The directory holds the Paths;      *)
(* read_dir may fail on the directory or on one     *)
(* entry.  Slot 1 holds the FileSet that new() returned, slot 2 a FileSet  *)
(* derived from it: a call on either binds the FileSet it returns to slot  *)
(* 2, dropping what was there.  A panic ends the program.                  *)
(***************************************************************************)
MaxFsChanges == 1   \* changes of the filesystem after the model starts

FSlots == {1, 2}

\* The order in which read_dir happens to yield the directory's entries
Enumeration == << <<116>>, <<46, 104>>, <<97, 46, 116>> >>

\* read_dir's possible results: every entry read, or one more entry, anywhere
\* in the enumeration, that fails to be read
Listings ==
    {[i \in 1..Len(Enumeration) |-> Some(Enumeration[i])]}
    \cup {[i \in 1..(Len(Enumeration) + 1) |->
                IF i < k THEN Some(Enumeration[i])
                ELSE IF i = k THEN None
                ELSE Some(Enumeration[i - 1])] : k \in 1..(Len(Enumeration) + 1)}

Dirs ==
    {[open |-> FALSE, entries |-> <<>>]}
    \cup {[open |-> TRUE, entries |-> e] : e \in Listings}

InitialFs ==
    [p \in Paths |-> CASE p = <<46, 104>> -> "file"
                       [] p = <<97, 46, 116>> -> "symlink"
                       [] OTHER -> "dir"]

FCall(op, self, dst, arg, churn, panicked, ret) ==
    [op |-> op, self |-> self, dst |-> dst, arg |-> arg, churn |-> churn,
     panicked |-> panicked, ret |-> ret]

NoFCall == FCall("none", 0, 0, NoArg, FALSE, FALSE, None)

\* The FileSet part at rest, for the specifications that do not use it
FSIdle ==
    /\ dir = [open |-> FALSE, entries |-> <<>>]
    /\ fs = InitialFs
    /\ changes = 0
    /\ orig = <<>>
    /\ sets = [s \in FSlots |-> None]
    /\ fcall = NoFCall

FSInit ==
    /\ dir \in Dirs
    /\ fs = InitialFs
    /\ changes = 0
    /\ orig = <<>>
    /\ sets = [s \in FSlots |-> None]
    /\ fcall = NoFCall
    /\ items = [s \in {1, 2} |-> <<>>]
    /\ call = [op |-> "none", self |-> 0, other |-> 0, dst |-> 0,
               arg |-> <<>>, ok |-> TRUE, ret |-> <<>>]
    /\ vec = <<>>
    /\ built = [op |-> "none", ok |-> FALSE, items |-> <<>>]

Running == ~fcall.panicked

HasSet(s) == sets[s] # None

\* A constructed or returned FileSet is bound to slot d
Bind(d, index_set) == [sets EXCEPT ![d] = Some(index_set)]

\* A change of the filesystem: none, or one entry deleted or replaced by an
\* entry of another kind
NoChange == [p |-> <<>>, k |-> "none"]
Churn == {NoChange} \cup {[p |-> p, k |-> k] : p \in Paths, k \in Kinds}
IsChange(c, f) == c # NoChange /\ f[c.p] # c.k
\* the changes that can happen to filesystem f when n have happened already
ChurnAt(f, n) == IF n < MaxFsChanges THEN {c \in Churn : IsChange(c, f)} ELSE {}
\* the changes that can happen inside a call of order_by
ChurnIn(order_by, f, n) ==
    {NoChange} \cup (IF order_by = "Item" THEN ChurnAt(f, n) ELSE {})
Apply(c, f) == IF c = NoChange THEN f ELSE [f EXCEPT ![c.p] = c.k]
Cost(c) == IF c = NoChange THEN 0 ELSE 1

\* The filesystem changes between two calls
FsChange(c) ==
    /\ Running /\ fcall.op # "none"
    /\ IsChange(c, fs)
    /\ changes < MaxFsChanges
    /\ fs' = Apply(c, fs)
    /\ changes' = changes + 1
    /\ fcall' = FCall("fs_change", 0, 0, NoArg, TRUE, FALSE, None)
    /\ UNCHANGED <<dir, orig, sets, osvars, tfvars>>

FSNew ==
    /\ fcall.op = "none"
    /\ LET r == FileSet_new(dir)
       IN  /\ sets' = IF r.panicked THEN sets ELSE Bind(1, r.index_set)
           /\ orig' = r.index_set
           /\ fcall' = FCall("new", 0, 1, NoArg, FALSE, r.panicked,
                             IF r.panicked THEN None ELSE Some(r.index_set))
    /\ UNCHANGED <<dir, fs, changes, osvars, tfvars>>

FSFilter(s, filter) ==
    /\ Running /\ HasSet(s)
    /\ LET r == FileSet_filter(Unwrap(sets[s]), filter, fs)
       IN  /\ sets' = Bind(2, r)
           /\ fcall' = FCall("filter", s, 2, filter, FALSE, FALSE, Some(r))
    /\ UNCHANGED <<dir, fs, changes, orig, osvars, tfvars>>

FSExclude(s, filter) ==
    /\ Running /\ HasSet(s)
    /\ LET r == FileSet_exclude(Unwrap(sets[s]), filter, fs)
       IN  /\ sets' = Bind(2, r)
           /\ fcall' = FCall("exclude", s, 2, filter, FALSE, FALSE, Some(r))
    /\ UNCHANGED <<dir, fs, changes, orig, osvars, tfvars>>

\* order_by; while order_by(Item) runs its three filters the filesystem may
\* change before the second (c1) and before the third (c2)
FSOrderBy(s, order_by, c1, c2) ==
    /\ Running /\ HasSet(s)
    /\ order_by # "Item" => (c1 = NoChange /\ c2 = NoChange)
    /\ c1 # NoChange => IsChange(c1, fs)
    /\ c2 # NoChange => IsChange(c2, Apply(c1, fs))
    /\ changes + Cost(c1) + Cost(c2) <= MaxFsChanges
    /\ LET f2 == Apply(c1, fs)
           f3 == Apply(c2, f2)
           r == FileSet_order_by(Unwrap(sets[s]), order_by, fs, f2, f3)
       IN  /\ sets' = IF r.panicked THEN sets ELSE Bind(2, r.index_set)
           /\ fcall' = FCall("order_by", s, 2, Arg("OrderBy", order_by, <<>>),
                             Cost(c1) + Cost(c2) > 0, r.panicked,
                             IF r.panicked THEN None ELSE Some(r.index_set))
           /\ fs' = f3
           /\ changes' = changes + Cost(c1) + Cost(c2)
    /\ UNCHANGED <<dir, orig, osvars, tfvars>>

\* A reverse that, like OrderedSet::reverse, also reverses its receiver.
FSReverseInPlace(s) ==
    /\ Running /\ HasSet(s)
    /\ LET r == FileSet_reverse(Unwrap(sets[s]))
       IN  /\ sets' = [[sets EXCEPT ![s] = Some(r)] EXCEPT ![2] = Some(r)]
           /\ fcall' = FCall("reverse", s, 2, NoArg, FALSE, FALSE, Some(r))
    /\ UNCHANGED <<dir, fs, changes, orig, osvars, tfvars>>

FSReverse(s) ==
    /\ Running /\ HasSet(s)
    /\ LET r == FileSet_reverse(Unwrap(sets[s]))
       IN  /\ sets' = Bind(2, r)
           /\ fcall' = FCall("reverse", s, 2, NoArg, FALSE, FALSE, Some(r))
    /\ UNCHANGED <<dir, fs, changes, orig, osvars, tfvars>>

FSNext ==
    \/ \E c \in ChurnAt(fs, changes) : FsChange(c)
    \/ FSNew
    \/ \E s \in FSlots, filter \in Filter : FSFilter(s, filter)
    \/ \E s \in FSlots, filter \in Filter : FSExclude(s, filter)
    \/ \E s \in FSlots, order_by \in OrderBy :
            \E c1 \in ChurnIn(order_by, fs, changes) :
                \E c2 \in ChurnIn(order_by, Apply(c1, fs), changes + Cost(c1)) :
                    FSOrderBy(s, order_by, c1, c2)
    \/ \E s \in FSlots : FSReverse(s)

SpecFileSet == FSInit /\ [][FSNext]_vars

(***************************************************************************)
(* OrderedSet<T>: the calls a client makes on two sets, as the crate's     *)
(* tests do (ordered_set_1, ordered_set_2).  Each slot holds one set, built *)
(* by new() or by a successful try_from.  intersection and difference      *)
(* return a temporary (call.ret); reverse's returned set is either dropped *)
(* (dst = 0) or assigned to the other slot.                                *)
(***************************************************************************)
OSlots == {1, 2}

Call(op, self, other, dst, arg, ok, ret) ==
    [op |-> op, self |-> self, other |-> other, dst |-> dst,
     arg |-> arg, ok |-> ok, ret |-> ret]

\* What a constructor can return: new(), or the Ok of try_from
Constructed ==
    {OrderedSet_new} \cup
    {OrderedSet_try_from(v).items :
        v \in {w \in SeqsUpTo(Vals, MaxLen) : OrderedSet_try_from(w).ok}}

NoBuild == [op |-> "none", ok |-> FALSE, items |-> <<>>]

OSInit ==
    /\ items \in [OSlots -> Constructed]
    /\ call = Call("none", 0, 0, 0, <<>>, TRUE, <<>>)
    /\ vec = <<>>
    /\ built = NoBuild
    /\ FSIdle

OSPush(s, item) ==
    /\ Len(items[s]) < MaxLen \/ Contains(items[s], item)
    /\ LET r == OrderedSet_push(items[s], item)
       IN  /\ items' = [items EXCEPT ![s] = r.items]
           /\ call' = Call("push", s, 0, 0, <<item>>, r.ok, <<>>)
    /\ UNCHANGED <<tfvars, fsvars>>

OSIntersection(s, o) ==
    /\ items' = items
    /\ call' = Call("intersection", s, o, 0, <<>>, TRUE,
                    OrderedSet_intersection(items[s], items[o]))
    /\ UNCHANGED <<tfvars, fsvars>>

OSDifference(s, o) ==
    /\ items' = items
    /\ call' = Call("difference", s, o, 0, <<>>, TRUE,
                    OrderedSet_difference(items[s], items[o]))
    /\ UNCHANGED <<tfvars, fsvars>>

OSReverse(s, d) ==
    /\ d # s
    /\ LET r == OrderedSet_reverse(items[s])
       IN  /\ items' = IF d = 0
                       THEN [items EXCEPT ![s] = r.self]
                       ELSE [items EXCEPT ![s] = r.self, ![d] = r.ret]
           /\ call' = Call("reverse", s, 0, d, <<>>, TRUE, r.ret)
    /\ UNCHANGED <<tfvars, fsvars>>

OSNext ==
    \/ \E s \in OSlots, item \in Vals : OSPush(s, item)
    \/ \E s, o \in OSlots : OSIntersection(s, o)
    \/ \E s, o \in OSlots : OSDifference(s, o)
    \/ \E s \in OSlots, d \in OSlots \cup {0} : OSReverse(s, d)

SpecOrderedSet == OSInit /\ [][OSNext]_vars

(***************************************************************************)
(* try_from as a function of its input vector.                             *)
(***************************************************************************)
TFInit ==
    /\ vec \in SeqsUpTo(Vals, MaxLen)
    /\ built = NoBuild
    /\ items = [s \in OSlots |-> <<>>]
    /\ call = Call("none", 0, 0, 0, <<>>, TRUE, <<>>)
    /\ FSIdle

TFOrderedSet ==
    /\ built.op = "none"
    /\ built' = [op |-> "OrderedSet::try_from"] @@ OrderedSet_try_from(vec)
    /\ UNCHANGED <<vec, osvars, fsvars>>

TFOrderableSet ==
    /\ built.op = "none"
    /\ built' = [op |-> "OrderableSet::try_from"] @@ OrderableSet_try_from(vec)
    /\ UNCHANGED <<vec, osvars, fsvars>>

TFNext == TFOrderedSet \/ TFOrderableSet

SpecTryFrom == TFInit /\ [][TFNext]_vars

(***************************************************************************)
(* filter and exclude by visibility as functions of the receiver's         *)
(* index_set, over every IndexSet<PathBuf> of the paths and of "..", the   *)
(* path that has no file name.                                             *)
(***************************************************************************)
PathBufs == Paths \cup {<<DOT, DOT>>}

IndexSets == {q \in SeqsUpTo(PathBufs, MaxLen) : IndexSet_collect(q) = q}

VInit ==
    /\ \E q \in IndexSets : sets = [s \in FSlots |-> IF s = 1 THEN Some(q) ELSE None]
    /\ fcall = NoFCall
    /\ dir = [open |-> FALSE, entries |-> <<>>]
    /\ fs = InitialFs
    /\ changes = 0
    /\ orig = <<>>
    /\ items = [s \in OSlots |-> <<>>]
    /\ call = Call("none", 0, 0, 0, <<>>, TRUE, <<>>)
    /\ vec = <<>>
    /\ built = NoBuild

VNext ==
    \/ \E s \in FSlots, v \in VisibilityFilter : FSFilter(s, Arg("Visibility", v, <<>>))
    \/ \E s \in FSlots, v \in VisibilityFilter : FSExclude(s, Arg("Visibility", v, <<>>))

SpecVisibility == VInit /\ [][VNext]_vars

(***************************************************************************)
(* Properties of OrderedSet<T>.                                            *)
(***************************************************************************)
Elems(seq) == {seq[i] : i \in 1..Len(seq)}

NoDup(seq) == \A i, j \in 1..Len(seq) : i # j => seq[i] # seq[j]

Pos(seq, x) == CHOOSE i \in 1..Len(seq) : seq[i] = x

\* r lists exactly the elements of a that lie in S, once each, in a's order
IsSubseqOf(r, a, S) ==
    /\ NoDup(r)
    /\ Elems(r) = Elems(a) \cap S
    /\ \A i, j \in 1..Len(r) : i < j => Pos(a, r[i]) < Pos(a, r[j])

IsReverseOf(r, a) ==
    /\ Len(r) = Len(a)
    /\ \A i \in 1..Len(a) : r[i] = a[Len(a) + 1 - i]

\* C2: in every state reached from new() or a successful try_from by push
\* (successful or failing) and reverse calls, no slot's items hold two equal
\* elements, and neither does a set returned by intersection, difference or
\* reverse.
C2_NoDuplicates ==
    /\ \A s \in OSlots : NoDup(items[s])
    /\ call.op \in {"intersection", "difference", "reverse"} => NoDup(call.ret)

C2_Witness ==
    /\ call.op = "push" /\ ~call.ok
    /\ Len(items[call.self]) = MaxLen

\* C3: push(item) fails exactly when item is already in the set, and then the
\* items are as they were; otherwise it returns Ok, item is the last element
\* and every earlier element keeps its position.
C3_Push ==
    [][call'.op = "push" =>
        LET pre == items[call'.self]
            post == items'[call'.self]
            item == call'.arg[1]
        IN  /\ ~call'.ok <=> item \in Elems(pre)
            /\ ~call'.ok => post = pre
            /\ call'.ok =>
                /\ Len(post) = Len(pre) + 1
                /\ post[Len(post)] = item
                /\ \A i \in 1..Len(pre) : post[i] = pre[i]]_vars

C3_Witness ==
    /\ call.op = "push" /\ call.ok
    /\ Len(items[call.self]) = MaxLen

\* C5: a.intersection(b) is the subsequence of a's elements present in b and
\* a.difference(b) the subsequence of those absent from b, each in a's order;
\* the two partition a, and neither call changes a or b.
C5_Partition ==
    \A s, o \in OSlots :
        LET i == OrderedSet_intersection(items[s], items[o])
            d == OrderedSet_difference(items[s], items[o])
        IN  /\ Elems(i) \cup Elems(d) = Elems(items[s])
            /\ Elems(i) \cap Elems(d) = {}
            /\ Len(i) + Len(d) = Len(items[s])

C5_IntersectionDifference ==
    /\ []C5_Partition
    /\ [][/\ call'.op = "intersection" =>
                /\ items' = items
                /\ IsSubseqOf(call'.ret, items[call'.self], Elems(items[call'.other]))
          /\ call'.op = "difference" =>
                /\ items' = items
                /\ IsSubseqOf(call'.ret, items[call'.self],
                              Vals \ Elems(items[call'.other]))]_vars

C5_Witness ==
    /\ call.op = "intersection" /\ call.self # call.other
    /\ Len(items[call.self]) = 3 /\ Len(call.ret) = 2
    /\ Pos(items[call.other], call.ret[2]) < Pos(items[call.other], call.ret[1])

\* C6: reverse() leaves the receiver in the exact reverse of its previous
\* order and returns a set in that same order; the returned set is a value
\* of its own (a later push or reverse on one set changes no other), and
\* reversing twice restores the original order.
C6_Reverse ==
    /\ [](\A s \in OSlots :
            OrderedSet_reverse(OrderedSet_reverse(items[s]).self).self = items[s])
    /\ [][/\ call'.op = "reverse" =>
                /\ IsReverseOf(items'[call'.self], items[call'.self])
                /\ call'.ret = items'[call'.self]
                /\ call'.dst # 0 => items'[call'.dst] = call'.ret
                /\ \A x \in OSlots \ {call'.self, call'.dst} : items'[x] = items[x]
          /\ call'.op = "push" =>
                \A x \in OSlots \ {call'.self} : items'[x] = items[x]]_vars

C6_Witness ==
    /\ call.op = "reverse" /\ call.dst # 0
    /\ Len(call.ret) = MaxLen

\* C4: try_from(vec) is an error exactly when two positions of vec hold equal
\* values, wherever they are; otherwise the set's to_vec() is vec itself.
C4_TryFrom ==
    built.op # "none" =>
        /\ ~built.ok <=> \E i, j \in 1..Len(vec) : i # j /\ vec[i] = vec[j]
        /\ built.ok => OrderedSet_to_vec(built.items) = vec

C4_Witness ==
    /\ built.op = "OrderedSet::try_from" /\ ~built.ok
    /\ Len(vec) = 3 /\ vec[1] = vec[3] /\ vec[1] # vec[2]

(***************************************************************************)
(* Properties of FileSet.                                                  *)
(***************************************************************************)
FSCalls == {"filter", "exclude", "order_by", "reverse"}

\* C1: after any sequence of filter, exclude, order_by and reverse calls, a
\* FileSet's to_vec() holds no path twice and only paths of the set that
\* new() constructed.
C1_NoDupSubset ==
    /\ \A s \in FSlots : HasSet(s) =>
            /\ NoDup(FileSet_to_vec(Unwrap(sets[s])))
            /\ Elems(FileSet_to_vec(Unwrap(sets[s]))) \subseteq Elems(orig)
    /\ fcall.ret # None =>
            /\ NoDup(FileSet_to_vec(Unwrap(fcall.ret)))
            /\ Elems(FileSet_to_vec(Unwrap(fcall.ret))) \subseteq Elems(orig)

C1_Witness ==
    /\ fcall.op = "order_by" /\ fcall.arg.sub = "Item"
    /\ fcall.self = 2 /\ fcall.churn
    /\ Len(Unwrap(fcall.ret)) = Len(orig)
    /\ Unwrap(fcall.ret) # orig

\* C7: filter, exclude, order_by and reverse never change their receiver,
\* nor does a later call on the FileSet they returned: across every call,
\* on the FileSet in slot 1 or on one derived from it, the to_vec(), len()
\* and is_empty() of the FileSet in slot 1 stay what they were.
C7_ReceiverUnchanged ==
    [][fcall'.op \in FSCalls =>
        /\ HasSet(fcall'.self)
        /\ fcall'.panicked => sets' = sets
        /\ sets'[1] # None
        /\ FileSet_to_vec(Unwrap(sets'[1])) = FileSet_to_vec(Unwrap(sets[1]))
        /\ FileSet_len(Unwrap(sets'[1])) = FileSet_len(Unwrap(sets[1]))
        /\ FileSet_is_empty(Unwrap(sets'[1])) = FileSet_is_empty(Unwrap(sets[1]))]_vars

C7_Witness ==
    /\ fcall.op = "reverse" /\ fcall.self = 1
    /\ FileSet_len(Unwrap(sets[1])) = 3
    /\ Unwrap(fcall.ret) # Unwrap(sets[1])
    /\ Unwrap(sets[1]) = orig

\* The path cannot be read under the criterion: no metadata for a kind, no
\* file name or extension for a text or a visibility
Unreadable(p, filter, f) ==
    CASE filter.tag = "Item" -> symlink_metadata(p, f) = None
      [] filter.tag = "Text" -> get_name_or_extension_function(filter.sub, p) = None
      [] filter.tag = "Visibility" -> file_name(p) = None

IsPartition(a, b, whole) ==
    /\ Elems(a) \cup Elems(b) = Elems(whole)
    /\ Elems(a) \cap Elems(b) = {}
    /\ NoDup(a) /\ NoDup(b)

\* C8: on one and the same filesystem, filter(C) and exclude(C) partition the
\* receiver for every criterion C, and a path that cannot be read under C is in
\* exclude(C) and not in filter(C).
C8_FilterExcludePartition ==
    /\ \A s \in FSlots, filter \in Filter : HasSet(s) =>
        LET self == Unwrap(sets[s])
            kept == FileSet_to_vec(FileSet_filter(self, filter, fs))
            rest == FileSet_to_vec(FileSet_exclude(self, filter, fs))
        IN  /\ IsPartition(kept, rest, self)
            /\ \A p \in Elems(self) : Unreadable(p, filter, fs) =>
                    p \in Elems(rest) /\ p \notin Elems(kept)
    /\ (fcall.op = "exclude" /\ fcall.self = 1) =>
            IsPartition(FileSet_filter(Unwrap(sets[1]), fcall.arg, fs),
                        Unwrap(fcall.ret), Unwrap(sets[1]))

C8_Witness ==
    /\ fcall.op = "exclude" /\ fcall.self = 1 /\ fcall.arg.tag = "Item"
    /\ \E p \in Elems(Unwrap(sets[1])) :
            /\ Unreadable(p, fcall.arg, fs)
            /\ p \in Elems(Unwrap(fcall.ret))
    /\ Len(Unwrap(fcall.ret)) = 2

\* The entries read_dir could read, in enumeration order
ReadableEntries(entries) ==
    LET ok == SelectSeq(entries, LAMBDA x : x # None)
    IN  [i \in 1..Len(ok) |-> Unwrap(ok[i])]

\* C9: new() on a directory that can be opened always returns a FileSet,
\* holding, in enumeration order, every entry that could be read; an entry
\* that could not be read is skipped.
C9_NewSkipsUnreadable ==
    (fcall.op = "new" /\ dir.open) =>
        /\ ~fcall.panicked
        /\ fcall.ret = Some(ReadableEntries(dir.entries))

\* new() returns the entries in enumeration order when all of them can be read
C9_NewAllReadable ==
    (fcall.op = "new" /\ dir.open /\ \A i \in 1..Len(dir.entries) : dir.entries[i] # None) =>
        /\ ~fcall.panicked
        /\ fcall.ret = Some(ReadableEntries(dir.entries))

\* The file type an ItemFilter selects
KindOf(item_filter) ==
    CASE item_filter = "Directory" -> "dir"
      [] item_filter = "File" -> "file"
      [] item_filter = "Symlink" -> "symlink"

\* C10: filter(Item(K)) returns, in the receiver's order, exactly the paths
\* whose link-aware metadata is of kind K, and raises no error; so the results
\* for Directory, File and Symlink are pairwise disjoint, a symlink is in the
\* Symlink result only, and a path without readable metadata is in none.
C10_Classes ==
    \A s \in FSlots : HasSet(s) =>
        LET self == Unwrap(sets[s])
            in(k) == Elems(FileSet_to_vec(FileSet_filter(self, Arg("Item", k, <<>>), fs)))
        IN  /\ in("Directory") \cap in("File") = {}
            /\ in("Directory") \cap in("Symlink") = {}
            /\ in("File") \cap in("Symlink") = {}
            /\ \A p \in Elems(self) :
                /\ fs[p] = "symlink" =>
                        p \in in("Symlink") /\ p \notin in("Directory") \cup in("File")
                /\ fs[p] = "gone" =>
                        p \notin in("Directory") \cup in("File") \cup in("Symlink")

C10_FilterByItem ==
    /\ []C10_Classes
    /\ [][(fcall'.op = "filter" /\ fcall'.arg.tag = "Item") =>
            /\ ~fcall'.panicked
            /\ fs' = fs
            /\ IsSubseqOf(Unwrap(fcall'.ret), Unwrap(sets[fcall'.self]),
                          {p \in Paths : fs[p] = KindOf(fcall'.arg.sub)})]_vars

C10_Witness ==
    /\ fcall.op = "filter" /\ fcall.arg = Arg("Item", "File", <<>>)
    /\ fcall.self = 1 /\ Len(Unwrap(sets[1])) = 3
    /\ \E p \in Paths : fs[p] = "symlink"
    /\ \E p \in Paths : fs[p] = "gone"
    /\ Len(Unwrap(fcall.ret)) = 1

\* r holds the paths of a, each once
IsPermutationOf(r, a) ==
    /\ Len(r) = Len(a)
    /\ Elems(r) = Elems(a)
    /\ NoDup(r)

\* r is a in ascending order of Less, paths that Less does not tell apart
\* staying in the order they have in a
IsStableSortOf(r, a, Less(_, _)) ==
    /\ IsPermutationOf(r, a)
    /\ \A i, j \in 1..Len(r) : i < j =>
            /\ ~Less(r[j], r[i])
            /\ ~Less(r[i], r[j]) => Pos(a, r[i]) < Pos(a, r[j])

\* The byte length of the link-aware metadata, 0 when it cannot be read
SizeOrZero(p, f) ==
    IF symlink_metadata(p, f) = None THEN 0 ELSE Unwrap(symlink_metadata(p, f)).len

\* C11: order_by(Size) always completes and returns every path of the
\* receiver exactly once, in ascending order of the byte length of the
\* link-aware metadata, ties in the receiver's order; a path whose metadata
\* cannot be read is ordered as size 0, neither dropped nor a failure.
C11_OrderBySize ==
    [][(fcall'.op = "order_by" /\ fcall'.arg.sub = "Size") =>
            /\ ~fcall'.panicked
            /\ fcall'.ret # None
            /\ LET Less(a, b) == SizeOrZero(a, fs) < SizeOrZero(b, fs)
               IN  IsStableSortOf(Unwrap(fcall'.ret), Unwrap(sets[fcall'.self]), Less)]_vars

\* order_by(Size) on readable paths only: the stable ascending order of size
C11_OrderBySizeReadable ==
    [][(/\ fcall'.op = "order_by" /\ fcall'.arg.sub = "Size"
        /\ \A p \in Elems(Unwrap(sets[fcall'.self])) : symlink_metadata(p, fs) # None) =>
            /\ ~fcall'.panicked
            /\ fcall'.ret # None
            /\ LET Less(a, b) == SizeOrZero(a, fs) < SizeOrZero(b, fs)
               IN  IsStableSortOf(Unwrap(fcall'.ret), Unwrap(sets[fcall'.self]), Less)]_vars

\* The paths of a that are of kind k on filesystem f, in a's order
Group(a, k, f) == SelectSeq(a, LAMBDA p : f[p] = k)

ItemKinds == {"dir", "file", "symlink"}

\* C12: order_by(Item) returns the receiver's directories, then its regular
\* files, then its symbolic links, each group in the receiver's relative
\* order, no path twice; a path that is none of the three (unreadable, or of
\* another kind) is dropped, so the result has the receiver's length only
\* when every path is a directory, a file or a symlink.  The kinds are those
\* of the filesystem the call runs on, which stays as it is during the call.
C12_OrderByItem ==
    [][(fcall'.op = "order_by" /\ fcall'.arg.sub = "Item") =>
            /\ ~fcall'.panicked
            /\ fcall'.ret # None
            /\ LET self == Unwrap(sets[fcall'.self])
                   ret == Unwrap(fcall'.ret)
               IN  /\ NoDup(ret)
                   /\ Elems(ret) \subseteq Elems(self)
                   /\ ~fcall'.churn =>
                        /\ fs' = fs
                        /\ ret = Group(self, "dir", fs) \o Group(self, "file", fs)
                                    \o Group(self, "symlink", fs)
                        /\ Elems(self) \ Elems(ret) =
                                {p \in Elems(self) : fs[p] \notin ItemKinds}
                        /\ Len(ret) = Len(self) <=>
                                \A p \in Elems(self) : fs[p] \in ItemKinds]_vars

C12_Witness ==
    /\ fcall.op = "order_by" /\ fcall.arg.sub = "Item"
    /\ fcall.self = 1 /\ ~fcall.churn
    /\ Len(Unwrap(sets[1])) = 3
    /\ Len(Unwrap(fcall.ret)) = 2
    /\ \E p \in Elems(Unwrap(sets[1])) :
            fs[p] \in {"other", "gone"} /\ p \notin Elems(Unwrap(fcall.ret))

\* The key order_by(Name) or order_by(Extension) sorts by
SortKey(order_by, p) == IF order_by = "Extension" THEN extension(p) ELSE file_name(p)

\* C13: order_by(Name) and order_by(Extension) each return a permutation of
\* the receiver that is non-decreasing in the key under lexicographic
\* comparison, a missing extension before every present one, paths of equal
\* key in the receiver's relative order; so the same order_by applied to its
\* own result returns the identical sequence.
C13_OrderByNameExtension ==
    [][(fcall'.op = "order_by" /\ fcall'.arg.sub \in {"Name", "Extension"}) =>
            /\ ~fcall'.panicked
            /\ fcall'.ret # None
            /\ LET self == Unwrap(sets[fcall'.self])
                   ret == Unwrap(fcall'.ret)
                   order_by == fcall'.arg.sub
                   Less(a, b) == OptionLess(SortKey(order_by, a), SortKey(order_by, b))
               IN  /\ IsStableSortOf(ret, self, Less)
                   /\ \A i, j \in 1..Len(ret) :
                        (i < j /\ SortKey(order_by, ret[j]) = None) =>
                            SortKey(order_by, ret[i]) = None
                   /\ \A i, j \in 1..Len(ret) :
                        (/\ i < j
                         /\ SortKey(order_by, ret[i]) # None
                         /\ SortKey(order_by, ret[j]) # None) =>
                            ~LexLess(Unwrap(SortKey(order_by, ret[j])),
                                     Unwrap(SortKey(order_by, ret[i])))
                   /\ FileSet_order_by(ret, order_by, fs', fs', fs') =
                            [panicked |-> FALSE, index_set |-> ret]
                   /\ (/\ fcall.op = "order_by" /\ fcall.arg = fcall'.arg
                       /\ ~fcall.panicked /\ fcall'.self = 2) =>
                            ret = Unwrap(fcall.ret)]_vars

C13_Witness ==
    /\ fcall.op = "order_by" /\ fcall.arg.sub = "Extension"
    /\ fcall.self = 2
    /\ Len(Unwrap(fcall.ret)) = 3
    /\ Pos(Unwrap(fcall.ret), <<46, 104>>) < Pos(Unwrap(fcall.ret), <<116>>)
    /\ extension(Unwrap(fcall.ret)[2]) = None
    /\ extension(Unwrap(fcall.ret)[3]) # None

\* C14: reverse() returns exactly the receiver's sequence reversed, element
\* i of the result being element len-1-i of the receiver; so reverse() of
\* reverse() is the original sequence, and reverse() of order_by(Name) is
\* non-increasing in the name key and the element-for-element reverse of
\* order_by(Name).
C14_Reverse ==
    [][fcall'.op = "reverse" =>
            /\ ~fcall'.panicked
            /\ fcall'.ret # None
            /\ LET self == Unwrap(sets[fcall'.self])
                   ret == Unwrap(fcall'.ret)
               IN  /\ Len(ret) = Len(self)
                   /\ \A i \in 1..Len(ret) : ret[i] = self[Len(self) + 1 - i]
                   /\ FileSet_reverse(ret) = self
                   /\ (fcall.op = "reverse" /\ fcall.self = 1 /\ fcall'.self = 2) =>
                            ret = Unwrap(sets[1])
                   /\ (/\ fcall.op = "order_by" /\ fcall.arg.sub = "Name"
                       /\ ~fcall.panicked /\ fcall'.self = 2) =>
                            /\ \A i \in 1..Len(ret) :
                                    ret[i] = Unwrap(fcall.ret)[Len(ret) + 1 - i]
                            /\ \A i, j \in 1..Len(ret) : i < j =>
                                    ~OptionLess(file_name(ret[i]), file_name(ret[j]))]_vars

C14_Witness ==
    /\ fcall.op = "reverse" /\ fcall.self = 2
    /\ Unwrap(fcall.ret) = << <<116>>, <<97, 46, 116>>, <<46, 104>> >>
    /\ Unwrap(sets[1]) # Unwrap(fcall.ret)
    /\ Unwrap(sets[1]) # Rev(Unwrap(fcall.ret))

HasFileName(p) == file_name(p) # None

\* The path's file name starts with '.'
IsHidden(p) == HasFileName(p) /\ Len(Unwrap(file_name(p))) >= 1 /\ Unwrap(file_name(p))[1] = DOT

\* The path's file name does not start with '.'
IsVisible(p) == HasFileName(p) /\ ~IsHidden(p)

\* filter(Hidden) and filter(Visible) of every FileSet: the hidden and the
\* visible paths, none without a file name; exclude(Hidden) is
\* filter(Visible) when every path has a file name
C15_Classes ==
    \A s \in FSlots : HasSet(s) =>
        LET self == Unwrap(sets[s])
            hidden == FileSet_to_vec(FileSet_filter(self, Arg("Visibility", "Hidden", <<>>), fs))
            visible == FileSet_to_vec(FileSet_filter(self, Arg("Visibility", "Visible", <<>>), fs))
        IN  /\ IsSubseqOf(hidden, self, {p \in PathBufs : IsHidden(p)})
            /\ IsSubseqOf(visible, self, {p \in PathBufs : IsVisible(p)})
            /\ \A p \in Elems(self) : ~HasFileName(p) =>
                    p \notin Elems(hidden) /\ p \notin Elems(visible)
            /\ Elems(hidden) \cap Elems(visible) = {}
            /\ Elems(hidden) \cup Elems(visible) = {p \in Elems(self) : HasFileName(p)}
            /\ (\A p \in Elems(self) : HasFileName(p)) =>
                    FileSet_to_vec(FileSet_exclude(self, Arg("Visibility", "Hidden", <<>>), fs))
                        = visible

\* C15: filter(Visibility(Hidden)) returns exactly the receiver's paths whose
\* file name starts with '.', filter(Visibility(Visible)) exactly those whose
\* file name does not; a path without a file name is in neither, so the two
\* results are disjoint and cover the paths that have a file name, and
\* exclude(Visibility(Hidden)) equals filter(Visibility(Visible)) when every
\* path has a file name.
C15_Visibility ==
    /\ []C15_Classes
    /\ [][(fcall'.op = "filter" /\ fcall'.arg.tag = "Visibility") =>
            /\ ~fcall'.panicked
            /\ IsSubseqOf(Unwrap(fcall'.ret), Unwrap(sets[fcall'.self]),
                          IF fcall'.arg.sub = "Hidden"
                          THEN {p \in PathBufs : IsHidden(p)}
                          ELSE {p \in PathBufs : IsVisible(p)})]_vars
    /\ [][(/\ fcall'.op = "exclude" /\ fcall'.arg = Arg("Visibility", "Hidden", <<>>)
           /\ \A p \in Elems(Unwrap(sets[fcall'.self])) : HasFileName(p)) =>
            IsSubseqOf(Unwrap(fcall'.ret), Unwrap(sets[fcall'.self]),
                       {p \in PathBufs : IsVisible(p)})]_vars

C15_Witness ==
    /\ fcall.op = "filter" /\ fcall.arg = Arg("Visibility", "Hidden", <<>>)
    /\ fcall.self = 1
    /\ Len(Unwrap(sets[1])) = 3
    /\ <<DOT, DOT>> \in Elems(Unwrap(sets[1]))
    /\ Unwrap(fcall.ret) = << <<46, 104>> >>

\* filter(C) of what filter(C) returned, on the same filesystem, for every
\* FileSet and every criterion C
C16_Twice ==
    \A s \in FSlots, filter \in Filter : HasSet(s) =>
        LET once == FileSet_filter(Unwrap(sets[s]), filter, fs)
        IN  FileSet_to_vec(FileSet_filter(once, filter, fs)) = FileSet_to_vec(once)

\* C16: with the filesystem unchanged between the calls, filter(C) called on
\* the FileSet that filter(C) returned yields the same paths in the same
\* order, for every FileSet and every criterion C.
C16_FilterIdempotent ==
    /\ []C16_Twice
    /\ [][(/\ fcall.op = "filter" /\ fcall'.op = "filter"
           /\ fcall'.arg = fcall.arg /\ fcall'.self = 2) =>
            /\ fs' = fs
            /\ ~fcall'.panicked
            /\ Unwrap(sets[2]) = Unwrap(fcall.ret)
            /\ FileSet_to_vec(Unwrap(fcall'.ret)) = FileSet_to_vec(Unwrap(fcall.ret))]_vars

C16_Witness ==
    /\ fcall.op = "filter" /\ fcall.self = 2
    /\ fcall.arg = Arg("Item", "Directory", <<>>)
    /\ Len(Unwrap(sets[1])) = 3
    /\ Len(Unwrap(fcall.ret)) = 2
    /\ Unwrap(fcall.ret) = FileSet_filter(Unwrap(sets[1]), fcall.arg, fs)

====
